---- MODULE Spec2Model ----
(***************************************************************************)
(* cert-trust: the dynamic schedule controller (SyncController).           *)
(*                                                                         *)
(* The model follows the fingerprint-gated controller (the variant with    *)
(* immediateOnStart / lastResourceHash).  Text values are sequences of     *)
(* characters, so that splitting and concatenation are computed.           *)
(***************************************************************************)
EXTENDS Integers, Sequences, FiniteSets, Bags, TLC

VARIABLES
    exports,          \* store: CertificateExport objects, key -> [secretRef, lastSyncTime]
    imports,          \* store: CertificateImport objects, key -> [fromExport, targetSecret, schedule, lastSyncTime]
    secrets,          \* store: Secret objects, key -> [type, data]
    crons,            \* every cron.Cron instance created so far; s.cron is the last one
    lastExportCount,  \* s.lastExportCount
    lastImportCount,  \* s.lastImportCount
    lastResourceHash, \* s.lastResourceHash
    immediateOnStart, \* s.immediateOnStart
    immediateOnce,    \* s.immediateOnce
    pcLoop,           \* position of the rescheduleLoop goroutine
    exportList,       \* buildSchedules: exportList.Items
    importList,       \* buildSchedules: importList.Items
    ctxDone,          \* the process context has been cancelled
    pcStart,          \* position of Start
    inflight,         \* bag of job callbacks that are executing
    primes,           \* the "immediate sync" goroutines: sequence of [items, i]
    ev,               \* the sync run that led to this state, if one did (history)
    hist              \* history: the last step of the loop, the calls of the build, counters

storeVars == <<exports, imports, secrets>>
ctlVars   == <<crons, lastExportCount, lastImportCount, lastResourceHash,
               immediateOnStart, immediateOnce>>
loopVars  == <<pcLoop, exportList, importList>>
vars == <<exports, imports, secrets, crons, lastExportCount, lastImportCount,
          lastResourceHash, immediateOnStart, immediateOnce, pcLoop, exportList,
          importList, ctxDone, pcStart, inflight, primes, ev, hist>>

----------------------------------------------------------------------------
(* Bounds of the model *)

\* user edits of the declared resources that are explored
MaxEdits == 1
\* job callbacks that may be executing at the same time
MaxInflight == 2
\* job callbacks that may be executing at the same time while the user edits
\* the declared resources
MaxBusy == 1
\* store calls that may fail during one run of the sync executor
MaxFailures == 1
\* characters of a reference handed to parseNSName
MaxRefLen == 4

----------------------------------------------------------------------------
(* Text *)

Slash == "/"
Colon == ":"
Space == " "

\* strings.Contains(ref, "/")
Contains(s, c) == \E i \in 1..Len(s) : s[i] = c

\* the place of the last c in s
IndexOfLast(s, c) == CHOOSE i \in 1..Len(s) : s[i] = c /\ \A j \in (i+1)..Len(s) : s[j] # c

\* index of the first occurrence of c in s (s contains c)
IndexOf(s, c) == CHOOSE i \in 1..Len(s) : s[i] = c /\ \A j \in 1..(i-1) : s[j] # c

\* strings.HasPrefix(s, p) for a one-character prefix
HasPrefix(s, c) == Len(s) > 0 /\ s[1] = c

RECURSIVE Fields(_)
\* strings.Fields: the maximal runs of non-space characters
Fields(s) ==
    IF s = <<>> THEN <<>>
    ELSE IF Head(s) = Space THEN Fields(Tail(s))
    ELSE IF Contains(s, Space)
         THEN <<SubSeq(s, 1, IndexOf(s, Space) - 1)>>
                  \o Fields(SubSeq(s, IndexOf(s, Space) + 1, Len(s)))
         ELSE <<s>>

\* types.NamespacedName
NamespacedName(ns, name) == <<ns, name>>

\* strings.SplitN(ref, "/", 2): the split is at the first separator
parseNSName(defaultNS, ref) ==
    IF Contains(ref, Slash)
    THEN NamespacedName(SubSeq(ref, 1, IndexOf(ref, Slash) - 1),
                        SubSeq(ref, IndexOf(ref, Slash) + 1, Len(ref)))
    ELSE NamespacedName(defaultNS, ref)

----------------------------------------------------------------------------
(* Trigger expressions (robfig/cron v3 parsers, as used by buildSchedules) *)

\* the descriptors cron's parseDescriptor knows, besides "@every <duration>"
Descriptors == {"yearly", "annually", "monthly", "weekly", "daily", "midnight", "hourly"}
\* durations time.ParseDuration accepts, among the tokens of the model
Durations == {"1h", "2h", "30m"}
\* field expressions the five-field parser accepts, among the tokens of the model
FieldExprs == {"*", "0", "*/2", "*/5", "*/30"}

\* getField: field i (minute, hour, day of month, month, day of week) accepts f;
\* days of month and months start at 1
FieldParses(i, f) ==
    /\ Len(f) = 1
    /\ f[1] \in FieldExprs
    /\ (f[1] = "0" => i \notin {3, 4})

\* cron.NewParser(cron.Descriptor).Parse(s) succeeds
DescriptorParses(s) ==
    /\ HasPrefix(s, "@")
    /\ \/ Len(s) = 2 /\ s[2] \in Descriptors
       \/ Len(s) = 4 /\ s[2] = "every" /\ s[3] = Space /\ s[4] \in Durations

\* cron.NewParser(Minute | Hour | Dom | Month | Dow).Parse(s) succeeds
FiveFieldParses(s) ==
    /\ s # <<>>
    /\ ~HasPrefix(s, "@")
    /\ Len(Fields(s)) = 5
    /\ \A i \in 1..Len(Fields(s)) : FieldParses(i, Fields(s)[i])

\* the validation of buildSchedules: which parser is asked depends on the "@" prefix
ValidSchedule(s) ==
    IF HasPrefix(s, "@") THEN DescriptorParses(s) ELSE FiveFieldParses(s)

\* the parser of cron.New(cron.WithSeconds()): a seconds field ahead of the
\* five fields
SecondsParses(s) ==
    \/ DescriptorParses(s)
    \/ /\ s # <<>>
       /\ ~HasPrefix(s, "@")
       /\ Len(Fields(s)) = 6
       /\ Len(Fields(s)[1]) = 1
       /\ Fields(s)[1][1] \in FieldExprs
       /\ \A i \in 2..6 : FieldParses(i - 1, Fields(s)[i])

\* the parser of cron.New() (the standard parser), asked by AddFunc
StandardParses(s) == DescriptorParses(s) \/ FiveFieldParses(s)

DefaultSchedule == <<"@", "every", Space, "1h">>

\* a schedule that is taken as it is written, with no default
EffectiveScheduleAsWritten(s) == s

\* schedule := getString(...); if schedule == "" { schedule = "@every 1h" }
EffectiveSchedule(s) == IF s = <<>> THEN DefaultSchedule ELSE s

----------------------------------------------------------------------------
(* The resource store *)

TLS    == "kubernetes.io/tls"
Opaque == "Opaque"

ExportItem(k) == [ns |-> k[1], name |-> k[2], secretRef |-> exports[k].secretRef]
ImportItem(k) == [ns |-> k[1], name |-> k[2], fromExport |-> imports[k].fromExport,
                  targetSecret |-> imports[k].targetSecret,
                  schedule |-> imports[k].schedule]

----------------------------------------------------------------------------
(* Change detection *)

RECURSIVE ExportsHashInput(_)
ExportsHashInput(items) ==
    IF items = <<>> THEN <<>>
    ELSE LET item == Head(items) IN
         <<"export", Colon>> \o item.ns \o <<Slash>> \o item.name \o <<Colon>>
           \o <<"secretRef", Colon>> \o item.secretRef \o <<Colon>>
           \o ExportsHashInput(Tail(items))

RECURSIVE ImportsHashInput(_)
ImportsHashInput(items) ==
    IF items = <<>> THEN <<>>
    ELSE LET item == Head(items) IN
         <<"import", Colon>> \o item.ns \o <<Slash>> \o item.name \o <<Colon>>
           \o <<"fromExport", Colon>> \o item.fromExport \o <<Colon>>
           \o <<"targetSecret", Colon>> \o item.targetSecret \o <<Colon>>
           \o <<"schedule", Colon>> \o item.schedule \o <<Colon>>
           \o ImportsHashInput(Tail(items))

\* hashInput.String()
HashInput(exps, imps) == ExportsHashInput(exps) \o ImportsHashInput(imps)

\* a fingerprint that also covers status.lastSyncTime of the resources
createResourceHashWithStatus(exps, imps) ==
    <<"sha256", HashInput(exps, imps),
      [k \in DOMAIN exports |-> exports[k].lastSyncTime],
      [k \in DOMAIN imports |-> imports[k].lastSyncTime]>>

\* fmt.Sprintf("%x", sha256.Sum256(...)): SHA-256 is taken to be collision free,
\* and its digest is never the empty string lastResourceHash starts with
createResourceHash(exps, imps) == <<"sha256", HashInput(exps, imps)>>

----------------------------------------------------------------------------
(* The sync executor *)

\* the store calls of one sync run that may fail for a reason of the store
\* (an outage, a rejected write), whatever the store holds
StoreCalls == {"getExport", "getSource", "getTarget", "write", "getOwner", "status"}

\* f with key k set to v (k is added when it is not there)
Put(f, k, v) == [x \in DOMAIN f \cup {k} |-> IF x = k THEN v ELSE f[x]]
\* delete(m, k)
Delete(f, k) == [x \in DOMAIN f \ {k} |-> f[x]]

\* m[k] != nil
Has(m, k) == k \in DOMAIN m

\* a create path that copies tls.crt and tls.key only
CreateDataNoCA(src) == [k \in {"tls.crt", "tls.key"} |-> src.data[k]]

\* an update path that overwrites tls.crt and tls.key and leaves ca.crt alone
UpdateDataKeepCA(data, src) ==
    Put(Put(data, "tls.crt", src.data["tls.crt"]), "tls.key", src.data["tls.key"])

\* the payload of a target that is created: tls.crt, tls.key, and ca.crt when
\* the source has it
CreateData(src) ==
    LET base == [k \in {"tls.crt", "tls.key"} |-> src.data[k]]
    IN IF Has(src.data, "ca.crt") THEN Put(base, "ca.crt", src.data["ca.crt"]) ELSE base

\* an update path that keeps the certificate it replaces under a key of its own
UpdateDataKeepPrevious(data, src) ==
    LET d == Put(Put(data, "tls.crt", src.data["tls.crt"]), "tls.key", src.data["tls.key"])
        e == IF Has(data, "tls.crt") THEN Put(d, "tls.crt.previous", data["tls.crt"]) ELSE d
    IN IF Has(src.data, "ca.crt") THEN Put(e, "ca.crt", src.data["ca.crt"])
       ELSE Delete(e, "ca.crt")

\* an update path that replaces the payload by what a create would write
UpdateDataReplace(data, src) == CreateData(src)

\* the payload of a target that is updated: tls.crt and tls.key overwritten,
\* ca.crt overwritten or deleted, every other key kept
UpdateData(data, src) ==
    LET d == Put(Put(data, "tls.crt", src.data["tls.crt"]), "tls.key", src.data["tls.key"])
    IN IF Has(src.data, "ca.crt") THEN Put(d, "ca.crt", src.data["ca.crt"])
       ELSE Delete(d, "ca.crt")

\* what a sync run hands back: the error it returns ("nil" for none), the way
\* it took, the store after it and the store calls it issued, in order
SyncResult(err, path, sec, exps, imps, calls) ==
    [err |-> err, path |-> path, secrets |-> sec, exports |-> exps, imports |-> imps,
     calls |-> calls]

\* best-effort status.lastSyncTime on the Import: Get, setString, Status().Update
StampImport(key, F, calls) ==
    IF "getOwner" \in F \/ key \notin DOMAIN imports
    THEN [imports |-> imports, calls |-> calls \o <<<<"GetImport", key>>>>]
    ELSE [imports |-> IF "status" \in F THEN imports
                      ELSE [imports EXCEPT ![key].lastSyncTime = 1],
          calls |-> calls \o <<<<"GetImport", key>>, <<"UpdateImportStatus", key>>>>]

\* best-effort status.lastSyncTime on the Export
StampExport(key, F, calls) ==
    IF "getOwner" \in F \/ key \notin DOMAIN exports
    THEN [exports |-> exports, calls |-> calls \o <<<<"GetExport", key>>>>]
    ELSE [exports |-> IF "status" \in F THEN exports
                      ELSE [exports EXCEPT ![key].lastSyncTime = 1],
          calls |-> calls \o <<<<"GetExport", key>>, <<"UpdateExportStatus", key>>>>]

\* a source check that takes a credential of any type
IsTLSAny(sec) == TRUE

\* src.Type != corev1.SecretTypeTLS, negated
IsTLS(sec) == sec.type = TLS

\* a return that removes the target the Import names when its source cannot
\* be resolved
ReturnErrPrune(owner, tgtKey, err, path, calls) ==
    SyncResult(err, path, Delete(secrets, tgtKey), exports, imports,
               calls \o <<<<"DeleteSecret", tgtKey>>>>)

\* a return that stamps status.lastSyncTime on every way out of syncImport
ReturnErrStamped(owner, tgtKey, err, path, calls) ==
    SyncResult(err, path, secrets, exports,
               StampImport(owner, {}, calls).imports, StampImport(owner, {}, calls).calls)

\* a secretRef that is remembered instead of read from the Export
SecretRefRemembered(expKey) == <<"s">>

\* getString(exp.Object, "spec.secretRef") on the Export that was just read
SecretRefOf(expKey) == exports[expKey].secretRef

\* syncImport returns an error: nothing was written and nothing is stamped
ReturnErr(owner, tgtKey, err, path, calls) ==
    SyncResult(err, path, secrets, exports, imports, calls)

\* a syncExport that returns the error of its status stamp
syncExportStrict(namespace, name, secretRef, F) ==
    LET srcKey == NamespacedName(namespace, secretRef)
        owner == NamespacedName(namespace, name)
        c1 == <<<<"GetSecret", srcKey>>>>
    IN IF "getSource" \in F \/ srcKey \notin DOMAIN secrets
       THEN SyncResult("SourceNotFound", "none", secrets, exports, imports, c1)
       ELSE IF ~IsTLS(secrets[srcKey])
       THEN SyncResult("WrongCredentialType", "none", secrets, exports, imports, c1)
       ELSE LET st == StampExport(owner, F, c1)
            IN SyncResult(IF "getOwner" \in F \/ "status" \in F
                             \/ owner \notin DOMAIN exports
                          THEN "StatusStampFailure" ELSE "nil",
                          "none", secrets, st.exports, imports, st.calls)

\* syncExport(ctx, namespace, name, secretRef), the calls in F failing
syncExport(namespace, name, secretRef, F) ==
    LET srcKey == NamespacedName(namespace, secretRef)
        c1 == <<<<"GetSecret", srcKey>>>>
    IN IF "getSource" \in F \/ srcKey \notin DOMAIN secrets
       THEN SyncResult("SourceNotFound", "none", secrets, exports, imports, c1)
       ELSE IF ~IsTLS(secrets[srcKey])
       THEN SyncResult("WrongCredentialType", "none", secrets, exports, imports, c1)
       ELSE LET st == StampExport(NamespacedName(namespace, name), F, c1)
            IN SyncResult("nil", "none", secrets, st.exports, imports, st.calls)

\* syncImport(ctx, namespace, name, fromExport, targetSecret), the calls in F failing
syncImport(namespace, name, fromExport, targetSecret, F) ==
    LET expKey == parseNSName(namespace, fromExport)
        c1 == <<<<"GetExport", expKey>>>>
        owner == NamespacedName(namespace, name)
        tgtKey == NamespacedName(namespace, targetSecret)
    IN IF "getExport" \in F \/ expKey \notin DOMAIN exports
       THEN ReturnErr(owner, tgtKey, "ExportNotFound", "none", c1)
       ELSE
       LET srcKey == NamespacedName(expKey[1], SecretRefOf(expKey))
           c2 == c1 \o <<<<"GetSecret", srcKey>>>>
       IN IF "getSource" \in F \/ srcKey \notin DOMAIN secrets
          THEN ReturnErr(owner, tgtKey, "SourceNotFound", "none", c2)
          ELSE IF ~IsTLS(secrets[srcKey])
          THEN ReturnErr(owner, tgtKey, "WrongCredentialType", "none", c2)
          ELSE
          LET src == secrets[srcKey]
              c3 == c2 \o <<<<"GetSecret", tgtKey>>>>
          IN IF "getTarget" \in F \/ tgtKey \notin DOMAIN secrets
             THEN \* the Get returned an error: create
                  LET c4 == c3 \o <<<<"CreateSecret", tgtKey>>>>
                      tgt == [type |-> TLS, data |-> CreateData(src)]
                  IN IF "write" \in F \/ tgtKey \in DOMAIN secrets
                     THEN ReturnErr(owner, tgtKey, "StoreWriteFailure", "create", c4)
                     ELSE LET st == StampImport(owner, F, c4)
                          IN SyncResult("nil", "create", Put(secrets, tgtKey, tgt),
                                        exports, st.imports, st.calls)
             ELSE \* the target exists: update
                  LET c4 == c3 \o <<<<"UpdateSecret", tgtKey>>>>
                      tgt == [type |-> TLS,
                              data |-> UpdateData(secrets[tgtKey].data, src)]
                  IN IF "write" \in F
                     THEN ReturnErr(owner, tgtKey, "StoreWriteFailure", "update", c4)
                     ELSE LET st == StampImport(owner, F, c4)
                          IN SyncResult("nil", "update", Put(secrets, tgtKey, tgt),
                                        exports, st.imports, st.calls)

----------------------------------------------------------------------------
(* The declared resources the model explores *)

nsA == <<"a">>
nsB == <<"b">>

\* every Export key, in the order List returns them (by zone, then name)
ExportKeys == << <<nsA, <<"e">>>> >>
\* every Import key, in the order List returns them
ImportKeys == << <<nsA, <<"j">>>>, <<nsB, <<"i">>>> >>

Range(q) == {q[i] : i \in 1..Len(q)}

\* what the user may write as secretRef
SecretRefs == {<<"s">>, <<"x">>}
\* what the user may write as schedule: absent, a descriptor, a five-field
\* and a six-field expression
FiveFields == <<"*/5", Space, "*", Space, "*", Space, "*", Space, "*">>
SixFields  == <<"0", Space, "*/5", Space, "*", Space, "*", Space, "*", Space, "*">>
Schedules == {<<>>, <<"@", "daily">>, FiveFields, SixFields}

\* the Import spec written under each key: a qualified and a bare reference
ImportSpecs(k) ==
    IF k[1] = nsB
    THEN {[fromExport |-> <<"a", Slash, "e">>, targetSecret |-> <<"t">>,
           schedule |-> sch, lastSyncTime |-> 0] : sch \in Schedules}
    ELSE {[fromExport |-> <<"e">>, targetSecret |-> <<"u">>,
           schedule |-> sch, lastSyncTime |-> 0] : sch \in Schedules}
ExportSpecs == {[secretRef |-> r, lastSyncTime |-> 0] : r \in SecretRefs}

\* the source credential the user keeps at a/s: TLS-typed, with or without CA,
\* or the same certificate and key in an object of another type
TlsSecret(crt, key) == [type |-> TLS, data |-> [k \in {"tls.crt", "tls.key"} |->
                                                  IF k = "tls.crt" THEN crt ELSE key]]
WithCA(sec, ca) == [sec EXCEPT !.data = Put(sec.data, "ca.crt", ca)]
SourceKey == <<nsA, <<"s">>>>
SourceChoices == {TlsSecret("c1", "k1"), WithCA(TlsSecret("c1", "k1"), "ca1"),
                  [type |-> Opaque, data |-> Put(TlsSecret("c1", "k1").data, "extra", "x1")]}

\* the store with no object of a kind
NoObjects == <<>>

\* an object under key k with one of the values V, or none
Optional(k, V) == {NoObjects} \cup {Put(NoObjects, k, v) : v \in V}

\* s.List for the two kinds: the items, in key order
ListExports == [i \in 1..Len(SelectSeq(ExportKeys, LAMBDA k : k \in DOMAIN exports)) |->
                   ExportItem(SelectSeq(ExportKeys, LAMBDA k : k \in DOMAIN exports)[i])]
ListImports == [i \in 1..Len(SelectSeq(ImportKeys, LAMBDA k : k \in DOMAIN imports)) |->
                   ImportItem(SelectSeq(ImportKeys, LAMBDA k : k \in DOMAIN imports)[i])]

----------------------------------------------------------------------------
(* The scheduler: cron instances, buildSchedules, the reschedule loop, Start *)

\* cron.New(): no entries, not running
NewCron == [entries |-> <<>>, running |-> FALSE]

\* s.cron
cur == Len(crons)

\* c.Stop(): the run loop of c has ended when Stop returns; a no-op when c is
\* not running
CronStop(c) == [c EXCEPT !.running = FALSE]

\* c.Start(): a no-op when c is running
CronStart(c) == [c EXCEPT !.running = TRUE]

\* a retirement that neither removes the entries nor stops the instance
KeepCron(c) == c

\* lines 150-156: every entry is removed, then the instance is stopped
RetireCron(c) == CronStop([c EXCEPT !.entries = <<>>])

\* an incremental patch: the old instance is stopped and its entries are
\* carried into the new one
PatchCron(cs) ==
    Append([cs EXCEPT ![Len(cs)] = CronStop(cs[Len(cs)])],
           [entries |-> cs[Len(cs)].entries, running |-> FALSE])

\* lines 150-157: the instance s.cron names is retired and s.cron is a new one
ReplaceCron(cs) == Append([cs EXCEPT ![Len(cs)] = RetireCron(cs[Len(cs)])], NewCron)

\* the closure buildSchedules registers for one Import
ImportJob(item, gen) ==
    [kind |-> "import", gen |-> gen, ns |-> item.ns, name |-> item.name,
     fromExport |-> item.fromExport, targetSecret |-> item.targetSecret]

\* c.AddFunc(schedule, job): the standard parser of cron.New() decides; the
\* entry gets the next id of the instance
AddFunc(entries, schedule, job) ==
    IF StandardParses(schedule)
    THEN Append(entries, [id |-> Len(entries) + 1, schedule |-> schedule, job |-> job])
    ELSE entries

RECURSIVE AddImportsAbort(_, _, _)
\* a loop over importList.Items that ends at the first invalid schedule
AddImportsAbort(items, entries, gen) ==
    IF items = <<>> THEN entries
    ELSE LET item == Head(items)
             schedule == EffectiveSchedule(item.schedule)
         IN IF ~ValidSchedule(schedule)
            THEN entries
            ELSE AddImportsAbort(Tail(items),
                                 AddFunc(entries, schedule, ImportJob(item, gen)), gen)

RECURSIVE AddImports(_, _, _)
\* the loop over importList.Items: an invalid schedule is logged and skipped
AddImports(items, entries, gen) ==
    IF items = <<>> THEN entries
    ELSE LET item == Head(items)
             schedule == EffectiveSchedule(item.schedule)
         IN IF ~ValidSchedule(schedule)
            THEN AddImports(Tail(items), entries, gen)
            ELSE AddImports(Tail(items),
                            AddFunc(entries, schedule, ImportJob(item, gen)), gen)

RECURSIVE AddExports(_, _, _)
\* a loop over exportList.Items that registers a job for every Export
AddExports(items, entries, gen) ==
    IF items = <<>> THEN entries
    ELSE LET item == Head(items)
         IN AddExports(Tail(items),
                       AddFunc(entries, DefaultSchedule,
                               [kind |-> "export", gen |-> gen, ns |-> item.ns,
                                name |-> item.name, fromExport |-> <<>>,
                                targetSecret |-> item.secretRef]),
                       gen)

\* a builder that schedules the Exports as well as the Imports
ScheduleEntriesEager(entries, exps, imps, gen) ==
    AddImports(imps, AddExports(exps, entries, gen), gen)

\* the entries the new instance gets from the two listings: Exports are not
\* scheduled
ScheduleEntries(entries, exps, imps, gen) == AddImports(imps, entries, gen)

\* a gate that never skips
UnchangedNever(exps, imps) == FALSE

\* a gate that does not skip while a listed Import has no entry in the table
UnchangedUnlessLeftOut(exps, imps) ==
    /\ Len(exps) = lastExportCount
    /\ Len(imps) = lastImportCount
    /\ createResourceHash(exps, imps) = lastResourceHash
    /\ Len(crons[cur].entries) = Len(imps)

\* the check that gates the rebuild
Unchanged(exps, imps) ==
    /\ Len(exps) = lastExportCount
    /\ Len(imps) = lastImportCount
    /\ createResourceHash(exps, imps) = lastResourceHash

\* the failures of the store a sync run of the scheduler may meet
SchedFailures == {{}}

NoEvent == [op |-> "none"]

\* the history at the start: no edit, no immediate sync, no table built from a
\* listing yet
NoHistory == [edits |-> 0, launches |-> 0, seenNonEmpty |-> FALSE, calls |-> <<>>,
              built |-> [exps |-> <<>>, imps |-> <<>>]]

\* line 85 and line 93-96: the loop goroutine starts with a build
Init ==
    /\ exports \in {Put(NoObjects, ExportKeys[1], v) :
                       v \in {x \in ExportSpecs : x.secretRef = <<"s">>}}
    /\ imports \in {f @@ g :
                       f \in Optional(ImportKeys[1],
                                {v \in ImportSpecs(ImportKeys[1]) : v.schedule = SixFields}),
                       g \in Optional(ImportKeys[2],
                                {v \in ImportSpecs(ImportKeys[2]) : v.schedule = FiveFields})}
    /\ secrets = Put(NoObjects, SourceKey, TlsSecret("c1", "k1"))
    /\ crons = <<NewCron>>
    /\ lastExportCount = 0
    /\ lastImportCount = 0
    /\ lastResourceHash = <<>>
    /\ immediateOnStart \in BOOLEAN
    /\ immediateOnce = FALSE
    /\ pcLoop = "listExports"
    /\ exportList = <<>>
    /\ importList = <<>>
    /\ ctxDone = FALSE
    /\ pcStart = "waiting"
    /\ inflight = EmptyBag
    /\ primes = <<>>
    /\ ev = NoEvent
    /\ hist = NoHistory

\* a List of the Exports whose error ends the reschedule loop
BuildListExportsFatal ==
    /\ pcLoop = "listExports"
    /\ \/ /\ ~ctxDone
          /\ exportList' = ListExports
          /\ pcLoop' = "listImports"
          /\ hist' = [hist EXCEPT !.calls = <<"ListExports">>]
          /\ ev' = NoEvent
       \/ /\ pcLoop' = "exited"
          /\ ev' = [op |-> "listFailed", calls |-> <<"ListExports">>]
          /\ UNCHANGED <<exportList, hist>>
    /\ UNCHANGED <<storeVars, ctlVars, importList, ctxDone, pcStart, inflight, primes>>

\* a build that empties, stops and replaces the table before it lists
BuildListExportsEager ==
    /\ pcLoop = "listExports"
    /\ crons' = ReplaceCron(crons)
    /\ \/ /\ ~ctxDone
          /\ exportList' = ListExports
          /\ pcLoop' = "listImports"
          /\ hist' = [hist EXCEPT !.calls = <<"ListExports">>]
          /\ ev' = NoEvent
       \/ /\ pcLoop' = "wait"
          /\ ev' = [op |-> "listFailed", calls |-> <<"ListExports">>]
          /\ UNCHANGED <<exportList, hist>>
    /\ UNCHANGED <<storeVars, lastExportCount, lastImportCount, lastResourceHash,
                   immediateOnStart, immediateOnce, importList, ctxDone, pcStart,
                   inflight, primes>>

\* buildSchedules, lines 117-123: List of the Exports; an error ends the build.
\* A List may fail at any time, and it fails when the context is cancelled.
BuildListExports ==
    /\ pcLoop = "listExports"
    /\ \/ /\ ~ctxDone
          /\ exportList' = ListExports
          /\ pcLoop' = "listImports"
          /\ hist' = [hist EXCEPT !.calls = <<"ListExports">>]
          /\ ev' = NoEvent
       \/ /\ pcLoop' = "wait"
          /\ ev' = [op |-> "listFailed", calls |-> <<"ListExports">>]
          /\ UNCHANGED <<exportList, hist>>
    /\ UNCHANGED <<storeVars, ctlVars, importList, ctxDone, pcStart, inflight, primes>>

\* buildSchedules, lines 125-131: List of the Imports; an error ends the build
BuildListImports ==
    /\ pcLoop = "listImports"
    /\ \/ /\ ~ctxDone
          /\ importList' = ListImports
          /\ pcLoop' = "compare"
          /\ hist' = [hist EXCEPT !.calls = Append(@, "ListImports")]
          /\ ev' = NoEvent
          /\ UNCHANGED exportList
       \/ /\ pcLoop' = "wait"
          /\ hist' = [hist EXCEPT !.calls = <<>>]
          /\ ev' = [op |-> "listFailed", calls |-> Append(hist.calls, "ListImports")]
          /\ exportList' = <<>>
          /\ UNCHANGED importList
    /\ UNCHANGED <<storeVars, ctlVars, ctxDone, pcStart, inflight, primes>>

\* buildSchedules, lines 133-143: nothing changed, the build ends
BuildSkip ==
    /\ pcLoop = "compare"
    /\ Unchanged(exportList, importList)
    /\ pcLoop' = "wait"
    /\ exportList' = <<>>
    /\ importList' = <<>>
    /\ hist' = [hist EXCEPT !.calls = <<>>]
    /\ ev' = [op |-> "skip", calls |-> hist.calls, exps |-> exportList,
              imps |-> importList]
    /\ UNCHANGED <<storeVars, ctlVars, ctxDone, pcStart, inflight, primes>>

\* buildSchedules, lines 145-157: the tracked state is updated, the old
\* instance is emptied and stopped, and s.cron is a new instance
BuildReplace ==
    /\ pcLoop = "compare"
    /\ ~Unchanged(exportList, importList)
    /\ lastExportCount' = Len(exportList)
    /\ lastImportCount' = Len(importList)
    /\ lastResourceHash' = createResourceHash(exportList, importList)
    /\ crons' = ReplaceCron(crons)
    /\ pcLoop' = "schedule"
    /\ hist' = [hist EXCEPT !.built = [exps |-> exportList, imps |-> importList]]
    /\ ev' = NoEvent
    /\ UNCHANGED <<storeVars, immediateOnStart, immediateOnce, exportList, importList,
                   ctxDone, pcStart, inflight, primes>>

\* buildSchedules, lines 164-209: the Imports are scheduled on s.cron
BuildSchedule ==
    /\ pcLoop = "schedule"
    /\ crons' = [crons EXCEPT ![cur].entries =
                     ScheduleEntries(crons[cur].entries, exportList, importList, cur)]
    /\ pcLoop' = "start"
    /\ ev' = NoEvent
    /\ UNCHANGED <<storeVars, lastExportCount, lastImportCount, lastResourceHash,
                   immediateOnStart, immediateOnce, exportList, importList,
                   ctxDone, pcStart, inflight, primes, hist>>

\* an immediate sync that is launched by every rebuild with a listing that is
\* not empty
PrimeDueEveryRebuild(imps) == Len(imps) > 0

\* lines 227-228: the one-time immediate sync is due
PrimeDue(imps) == immediateOnStart /\ ~immediateOnce /\ Len(imps) > 0

\* buildSchedules, lines 211-248: s.cron is started when it has entries; the
\* immediate sync goroutine is launched when it is due; the build ends
BuildStart ==
    /\ pcLoop = "start"
    /\ crons' = [crons EXCEPT ![cur] =
                     IF Len(crons[cur].entries) > 0 THEN CronStart(crons[cur])
                     ELSE crons[cur]]
    /\ IF PrimeDue(importList)
       THEN /\ immediateOnce' = TRUE
            /\ primes' = Append(primes, [items |-> importList, i |-> 1])
       ELSE UNCHANGED <<immediateOnce, primes>>
    /\ hist' = [hist EXCEPT
                   !.launches = IF PrimeDue(importList) THEN @ + 1 ELSE @,
                   !.seenNonEmpty = @ \/ Len(importList) > 0,
                   !.calls = <<>>]
    /\ ev' = [op |-> "rebuilt", calls |-> hist.calls, imps |-> importList,
              primed |-> PrimeDue(importList), first |-> ~hist.seenNonEmpty]
    /\ pcLoop' = "wait"
    /\ exportList' = <<>>
    /\ importList' = <<>>
    /\ UNCHANGED <<storeVars, lastExportCount, lastImportCount, lastResourceHash,
                   immediateOnStart, ctxDone, pcStart, inflight>>

\* rescheduleLoop, lines 99-103: the ticker fires
LoopTick ==
    /\ pcLoop = "wait"
    /\ pcLoop' = "listExports"
    /\ ev' = NoEvent
    /\ UNCHANGED <<storeVars, ctlVars, exportList, importList, ctxDone, pcStart,
                   inflight, primes, hist>>

\* rescheduleLoop, lines 100-101: the context is done
LoopExit ==
    /\ pcLoop = "wait"
    /\ ctxDone
    /\ pcLoop' = "exited"
    /\ ev' = NoEvent
    /\ UNCHANGED <<storeVars, ctlVars, exportList, importList, ctxDone, pcStart,
                   inflight, primes, hist>>

\* the process context is cancelled
Cancel ==
    /\ ~ctxDone
    /\ ctxDone' = TRUE
    /\ ev' = NoEvent
    /\ UNCHANGED <<storeVars, ctlVars, loopVars, pcStart, inflight, primes, hist>>

\* Start, lines 86-89: after <-ctx.Done(), the instance s.cron names at that
\* moment is stopped, and Start returns
StartStop ==
    /\ pcStart = "waiting"
    /\ ctxDone
    /\ crons' = [crons EXCEPT ![cur] = CronStop(crons[cur])]
    /\ pcStart' = "returned"
    /\ ev' = NoEvent
    /\ UNCHANGED <<storeVars, lastExportCount, lastImportCount, lastResourceHash,
                   immediateOnStart, immediateOnce, loopVars, ctxDone, inflight,
                   primes, hist>>

\* the store after a sync run, and the record of the run
SyncStep(via, job, r) ==
    /\ secrets' = r.secrets
    /\ exports' = r.exports
    /\ imports' = r.imports
    /\ ev' = [op |-> "sync", via |-> via, job |-> job, err |-> r.err, path |-> r.path,
              calls |-> r.calls, before |-> secrets,
              owners |-> [exports |-> exports, imports |-> imports]]

\* a job closure that hands the context of the process to the sync: once the
\* context is cancelled, every store call of the sync fails
RunClosureCtx(job, F) ==
    IF job.kind = "import"
    THEN syncImport(job.ns, job.name, job.fromExport, job.targetSecret,
                    IF ctxDone THEN StoreCalls ELSE F)
    ELSE syncExport(job.ns, job.name, job.targetSecret,
                    IF ctxDone THEN StoreCalls ELSE F)

\* what a job closure runs
RunClosure(job, F) ==
    IF job.kind = "import"
    THEN syncImport(job.ns, job.name, job.fromExport, job.targetSecret, F)
    ELSE syncExport(job.ns, job.name, job.targetSecret, F)

\* the run loop of a running instance starts the job of an entry that is due,
\* in a goroutine of its own (cron.New() has no job wrapper)
Fire(g, i, max) ==
    /\ crons[g].running
    /\ BagCardinality(inflight) < max
    /\ inflight' = inflight (+) SetToBag({crons[g].entries[i]})
    /\ ev' = NoEvent
    /\ UNCHANGED <<storeVars, ctlVars, loopVars, ctxDone, pcStart, primes, hist>>

\* lines 192-203: the callback of an entry runs syncImport under
\* context.Background() and ends
RunJob(e, Fs) ==
    /\ BagIn(e, inflight)
    /\ \E F \in Fs : SyncStep("cron", e.job, RunClosure(e.job, F))
    /\ inflight' = inflight (-) SetToBag({e})
    /\ UNCHANGED <<ctlVars, loopVars, ctxDone, pcStart, primes, hist>>

\* an immediate sync goroutine that returns at the first error
PrimeSyncAbort(p, Fs) ==
    /\ LET g == primes[p]
           item == g.items[g.i]
       IN \E F \in Fs :
             LET r == syncImport(item.ns, item.name, item.fromExport,
                                 item.targetSecret, F)
             IN /\ SyncStep("prime", ImportJob(item, 0), r)
                /\ primes' = IF g.i = Len(g.items) \/ r.err # "nil"
                             THEN SubSeq(primes, 1, p - 1)
                                      \o SubSeq(primes, p + 1, Len(primes))
                             ELSE [primes EXCEPT ![p].i = g.i + 1]
    /\ UNCHANGED <<ctlVars, loopVars, ctxDone, pcStart, inflight, hist>>

\* lines 231-244: the immediate sync goroutine, after its sleep, syncs the next
\* Import of the listing it was launched with; an error is logged and the
\* goroutine goes on
PrimeSync(p, Fs) ==
    /\ LET g == primes[p]
           item == g.items[g.i]
       IN /\ \E F \in Fs :
                SyncStep("prime", ImportJob(item, 0),
                         syncImport(item.ns, item.name, item.fromExport,
                                    item.targetSecret, F))
          /\ primes' = IF g.i = Len(g.items)
                       THEN SubSeq(primes, 1, p - 1) \o SubSeq(primes, p + 1, Len(primes))
                       ELSE [primes EXCEPT ![p].i = g.i + 1]
    /\ UNCHANGED <<ctlVars, loopVars, ctxDone, pcStart, inflight, hist>>

\* An edit of the declared resources commutes with every step of the loop but
\* the two List calls; it is taken where the next step of the loop is a List
\* call (or the loop has ended).
EditPoint == pcLoop \in {"wait", "listImports", "exited"}

\* the user declares, changes or withdraws an Import
EditImport(k) ==
    /\ hist.edits < MaxEdits
    /\ EditPoint
    /\ \/ \E v \in ImportSpecs(k) :
            /\ IF k \in DOMAIN imports THEN imports[k].schedule # v.schedule ELSE TRUE
            /\ imports' = Put(imports, k,
                   IF k \in DOMAIN imports
                   THEN [v EXCEPT !.lastSyncTime = imports[k].lastSyncTime] ELSE v)
       \/ /\ k \in DOMAIN imports
          /\ imports' = Delete(imports, k)
    /\ hist' = [hist EXCEPT !.edits = @ + 1]
    /\ ev' = NoEvent
    /\ UNCHANGED <<exports, secrets, ctlVars, loopVars, ctxDone, pcStart, inflight, primes>>

\* the user declares, changes or withdraws an Export
EditExport(k) ==
    /\ hist.edits < MaxEdits
    /\ EditPoint
    /\ \/ \E v \in ExportSpecs :
            /\ IF k \in DOMAIN exports THEN exports[k].secretRef # v.secretRef ELSE TRUE
            /\ exports' = Put(exports, k,
                   IF k \in DOMAIN exports
                   THEN [v EXCEPT !.lastSyncTime = exports[k].lastSyncTime] ELSE v)
       \/ /\ k \in DOMAIN exports
          /\ exports' = Delete(exports, k)
    /\ hist' = [hist EXCEPT !.edits = @ + 1]
    /\ ev' = NoEvent
    /\ UNCHANGED <<imports, secrets, ctlVars, loopVars, ctxDone, pcStart, inflight, primes>>

\* the steps of buildSchedules and of the reschedule loop
Build ==
    \/ BuildListExports
    \/ BuildListImports
    \/ BuildSkip
    \/ BuildReplace
    \/ BuildSchedule
    \/ BuildStart
    \/ LoopTick

\* the steps of the jobs and of the immediate sync goroutine
Jobs(max, Fs) ==
    \/ \E g \in 1..Len(crons) : \E i \in 1..Len(crons[g].entries) : Fire(g, i, max)
    \/ \E e \in BagToSet(inflight) : RunJob(e, Fs)
    \/ \E p \in 1..Len(primes) : PrimeSync(p, Fs)

\* the running controller, the user editing the declared resources
Next ==
    \/ Build
    \/ Jobs(MaxBusy, SchedFailures)
    \/ \E k \in Range(ImportKeys) : EditImport(k)
    \/ \E k \in Range(ExportKeys) : EditExport(k)

Spec == Init /\ [][Next]_vars

\* the controller from its start to the end of the process: the context is
\* cancelled at some moment, Start stops the scheduler and the loop ends
NextStop ==
    \/ Build
    \/ Jobs(MaxInflight, SchedFailures)
    \/ Cancel
    \/ StartStop
    \/ LoopExit

SpecStop == Init /\ [][NextStop]_vars

----------------------------------------------------------------------------
(* The sync executor on its own: syncImport and syncExport are run on every
   store of a small universe, with every combination of failing store calls *)

TargetKey == <<nsB, <<"t">>>>
\* a second credential of the user, at a/x, that an Export may name instead
AltSourceKey == <<nsA, <<"x">>>>
\* a second Export, b/e, whose secretRef names the object an Import of its
\* zone has as its target
TargetExportKey == <<nsB, <<"e">>>>
\* what the target may hold before a sync: an earlier copy with or without CA,
\* a copy with a key of its own, an object of another type
TargetChoices ==
    { TlsSecret("c0", "k0"),
      WithCA(TlsSecret("c0", "k0"), "ca0"),
      [type |-> TLS, data |-> Put(TlsSecret("c0", "k0").data, "extra", "x0")],
      [type |-> Opaque, data |-> Put(Put(NoObjects, "extra", "x0"), "ca.crt", "ca0")] }

\* the arguments a job closure may hold: a qualified reference, a bare
\* reference into a zone without the Export, a bare reference in the
\* Export's zone, and a target that is the source itself
SyncArgs ==
    { [ns |-> nsB, name |-> <<"i">>, fromExport |-> <<"a", Slash, "e">>, targetSecret |-> <<"t">>],
      [ns |-> nsB, name |-> <<"i">>, fromExport |-> <<"e">>, targetSecret |-> <<"t">>],
      [ns |-> nsA, name |-> <<"j">>, fromExport |-> <<"e">>, targetSecret |-> <<"u">>],
      [ns |-> nsA, name |-> <<"j">>, fromExport |-> <<"e">>, targetSecret |-> <<"s">>] }

\* the store calls that fail during one run: none, one, or two at once
Failures == {F \in SUBSET StoreCalls : Cardinality(F) <= MaxFailures}

InitSync ==
    /\ exports \in Optional(ExportKeys[1], ExportSpecs)
    /\ imports \in {f @@ g :
                       f \in Optional(ImportKeys[1],
                                {v \in ImportSpecs(ImportKeys[1]) : v.schedule = <<>>}),
                       g \in Optional(ImportKeys[2],
                                {v \in ImportSpecs(ImportKeys[2]) : v.schedule = <<>>})}
    /\ secrets \in {f @@ g : f \in Optional(SourceKey, SourceChoices),
                              g \in Optional(TargetKey, TargetChoices)}
    /\ crons = <<NewCron>>
    /\ lastExportCount = 0
    /\ lastImportCount = 0
    /\ lastResourceHash = <<>>
    /\ immediateOnStart = FALSE
    /\ immediateOnce = FALSE
    /\ pcLoop = "listExports"
    /\ exportList = <<>>
    /\ importList = <<>>
    /\ ctxDone = FALSE
    /\ pcStart = "waiting"
    /\ inflight = EmptyBag
    /\ primes = <<>>
    /\ ev = NoEvent
    /\ hist = NoHistory

\* one run of syncImport
CallSyncImport(a, F) ==
    /\ SyncStep("call", ImportJob(a, 0),
                syncImport(a.ns, a.name, a.fromExport, a.targetSecret, F))
    /\ UNCHANGED <<ctlVars, loopVars, ctxDone, pcStart, inflight, primes, hist>>

\* one run of syncExport
CallSyncExport(k, F) ==
    /\ k \in DOMAIN exports
    /\ SyncStep("call",
                [kind |-> "export", gen |-> 0, ns |-> k[1], name |-> k[2],
                 fromExport |-> <<>>, targetSecret |-> exports[k].secretRef],
                syncExport(k[1], k[2], exports[k].secretRef, F))
    /\ UNCHANGED <<ctlVars, loopVars, ctxDone, pcStart, inflight, primes, hist>>

\* the owner of the source credential replaces or removes it
EditSource ==
    /\ \/ \E v \in SourceChoices :
            /\ IF SourceKey \in DOMAIN secrets THEN secrets[SourceKey] # v ELSE TRUE
            /\ secrets' = Put(secrets, SourceKey, v)
       \/ /\ SourceKey \in DOMAIN secrets
          /\ secrets' = Delete(secrets, SourceKey)
    /\ ev' = NoEvent
    /\ UNCHANGED <<exports, imports, ctlVars, loopVars, ctxDone, pcStart, inflight,
                   primes, hist>>

\* the user points the Export a/e at another credential
EditExportRef ==
    /\ ExportKeys[1] \in DOMAIN exports
    /\ \E r \in SecretRefs :
           /\ exports[ExportKeys[1]].secretRef # r
           /\ exports' = [exports EXCEPT ![ExportKeys[1]].secretRef = r]
    /\ ev' = NoEvent
    /\ UNCHANGED <<imports, secrets, ctlVars, loopVars, ctxDone, pcStart, inflight,
                   primes, hist>>

NextSync ==
    \/ \E a \in SyncArgs, F \in Failures : CallSyncImport(a, F)
    \/ \E k \in Range(ExportKeys), F \in Failures : CallSyncExport(k, F)
    \/ EditSource

SpecSync == InitSync /\ [][NextSync]_vars

----------------------------------------------------------------------------
(* The sync executor while the user changes what the Exports name: the store
   calls succeed, the Export a/e is pointed at one credential or the other,
   the credential at a/s is replaced, and a second Export may name the object
   an Import writes *)

InitLive ==
    /\ exports \in {f @@ g :
                       f \in {Put(NoObjects, ExportKeys[1], v) : v \in ExportSpecs},
                       g \in Optional(TargetExportKey,
                                {[secretRef |-> TargetKey[2], lastSyncTime |-> 0]})}
    /\ imports = NoObjects
    /\ secrets \in {f @@ g @@ Put(NoObjects, AltSourceKey, TlsSecret("c2", "k2")) :
                       f \in {Put(NoObjects, SourceKey, TlsSecret("c1", "k1"))},
                       g \in Optional(TargetKey, {TlsSecret("c0", "k0")})}
    /\ crons = <<NewCron>>
    /\ lastExportCount = 0
    /\ lastImportCount = 0
    /\ lastResourceHash = <<>>
    /\ immediateOnStart = FALSE
    /\ immediateOnce = FALSE
    /\ pcLoop = "listExports"
    /\ exportList = <<>>
    /\ importList = <<>>
    /\ ctxDone = FALSE
    /\ pcStart = "waiting"
    /\ inflight = EmptyBag
    /\ primes = <<>>
    /\ ev = NoEvent
    /\ hist = NoHistory

NextLive ==
    \/ \E a \in SyncArgs : CallSyncImport(a, {})
    \/ \E k \in {ExportKeys[1], TargetExportKey} : CallSyncExport(k, {})
    \/ EditSource
    \/ EditExportRef

SpecLive == InitLive /\ [][NextLive]_vars

----------------------------------------------------------------------------
(* The controller over a store whose calls may fail: two Imports with valid
   schedules share a table and an immediate sync pass, and any sync of either
   may meet a failing store call *)

InitPass ==
    /\ exports = Put(NoObjects, ExportKeys[1], [secretRef |-> <<"s">>, lastSyncTime |-> 0])
    /\ imports \in {f @@ g :
                       f \in {Put(NoObjects, ImportKeys[1], v) :
                                 v \in {x \in ImportSpecs(ImportKeys[1]) :
                                           x.schedule \in {<<>>, SixFields}}},
                       g \in {Put(NoObjects, ImportKeys[2], v) :
                                 v \in {x \in ImportSpecs(ImportKeys[2]) :
                                           x.schedule = FiveFields}}}
    /\ secrets = Put(NoObjects, SourceKey, TlsSecret("c1", "k1"))
    /\ crons = <<NewCron>>
    /\ lastExportCount = 0
    /\ lastImportCount = 0
    /\ lastResourceHash = <<>>
    /\ immediateOnStart \in BOOLEAN
    /\ immediateOnce = FALSE
    /\ pcLoop = "listExports"
    /\ exportList = <<>>
    /\ importList = <<>>
    /\ ctxDone = FALSE
    /\ pcStart = "waiting"
    /\ inflight = EmptyBag
    /\ primes = <<>>
    /\ ev = NoEvent
    /\ hist = NoHistory

NextPass ==
    \/ Build
    \/ Jobs(MaxBusy, Failures)

SpecPass == InitPass /\ [][NextPass]_vars

\* the same controller from its start to the end of the process; the ticker
\* of the reschedule loop fires again and again (time.NewTicker), so a loop
\* that waits in its select goes on
NextLoop ==
    \/ Build
    \/ Jobs(MaxBusy, Failures)
    \/ Cancel
    \/ StartStop
    \/ LoopExit

SpecLoop == InitPass /\ [][NextLoop]_vars /\ WF_vars(LoopTick \/ LoopExit)

----------------------------------------------------------------------------
(* parseNSName on its own: every reference of a few characters, separators
   included, in either zone *)

RefChars == {"a", "e", Slash}
Refs == UNION {[1..n -> RefChars] : n \in 0..MaxRefLen}

InitParse ==
    /\ exports = NoObjects
    /\ imports = NoObjects
    /\ secrets = NoObjects
    /\ crons = <<NewCron>>
    /\ lastExportCount = 0
    /\ lastImportCount = 0
    /\ lastResourceHash = <<>>
    /\ immediateOnStart = FALSE
    /\ immediateOnce = FALSE
    /\ pcLoop = "listExports"
    /\ exportList = <<>>
    /\ importList = <<>>
    /\ ctxDone = FALSE
    /\ pcStart = "waiting"
    /\ inflight = EmptyBag
    /\ primes = <<>>
    /\ ev \in {[op |-> "ref", defaultNS |-> z, ref |-> r] : z \in {nsA, nsB}, r \in Refs}
    /\ hist = NoHistory

\* one call of parseNSName
ParseRef ==
    /\ ev.op = "ref"
    /\ ev' = [op |-> "parsed", defaultNS |-> ev.defaultNS, ref |-> ev.ref,
              key |-> parseNSName(ev.defaultNS, ev.ref)]
    /\ UNCHANGED <<storeVars, ctlVars, loopVars, ctxDone, pcStart, inflight, primes, hist>>

SpecParse == InitParse /\ [][ParseRef]_vars

----------------------------------------------------------------------------
(* createResourceHash on its own: the store holds any of the declared
   resources, and a List hands back its items in one order or another *)

\* the orders in which a List may hand back the items q
ListOrders(q) == {p \in [1..Len(q) -> Range(q)] : Range(p) = Range(q)}

InitHash ==
    /\ exports \in Optional(ExportKeys[1], ExportSpecs)
    /\ imports \in {f @@ g :
                       f \in Optional(ImportKeys[1], ImportSpecs(ImportKeys[1])),
                       g \in Optional(ImportKeys[2], ImportSpecs(ImportKeys[2]))}
    /\ secrets = NoObjects
    /\ crons = <<NewCron>>
    /\ lastExportCount = 0
    /\ lastImportCount = 0
    /\ lastResourceHash = <<>>
    /\ immediateOnStart = FALSE
    /\ immediateOnce = FALSE
    /\ pcLoop = "listExports"
    /\ exportList = <<>>
    /\ importList = <<>>
    /\ ctxDone = FALSE
    /\ pcStart = "waiting"
    /\ inflight = EmptyBag
    /\ primes = <<>>
    /\ ev = NoEvent
    /\ hist = NoHistory

\* lines 117-138 twice over the same store: the two List calls hand back the
\* items in some order each time, and createResourceHash is computed from each
\* pair of listings
HashListings ==
    /\ ev.op = "none"
    /\ \E e1 \in ListOrders(ListExports), i1 \in ListOrders(ListImports),
          e2 \in ListOrders(ListExports), i2 \in ListOrders(ListImports) :
           ev' = [op |-> "hashed",
                  first |-> [exps |-> e1, imps |-> i1,
                             hash |-> createResourceHash(e1, i1)],
                  second |-> [exps |-> e2, imps |-> i2,
                              hash |-> createResourceHash(e2, i2)]]
    /\ UNCHANGED <<storeVars, ctlVars, loopVars, ctxDone, pcStart, inflight, primes, hist>>

SpecHash == InitHash /\ [][HashListings]_vars

----------------------------------------------------------------------------
(* The controller while the user rewrites an Import: the attributes are free
   text (the resource schema puts no pattern on them), so the separator that
   createResourceHash writes between them may be part of what the user wrote *)

\* what the user may write under b/i: two well-formed Imports, and two
\* Imports with a ":" inside an attribute
DriftImportSpecs ==
    { [fromExport |-> <<"a", Slash, "e">>, targetSecret |-> <<"t">>,
       schedule |-> <<"@", "daily">>, lastSyncTime |-> 0],
      [fromExport |-> <<"a", Slash, "e">>, targetSecret |-> <<"u">>,
       schedule |-> FiveFields, lastSyncTime |-> 0],
      [fromExport |-> <<"a", Slash, "e">>, targetSecret |-> <<"t">>,
       schedule |-> <<"x", Colon, "schedule", Colon, "@", "daily">>, lastSyncTime |-> 0],
      [fromExport |-> <<"a", Slash, "e">>,
       targetSecret |-> <<"t", Colon, "schedule", Colon, "x">>,
       schedule |-> <<"@", "daily">>, lastSyncTime |-> 0] }

InitDrift ==
    /\ exports \in Optional(ExportKeys[1], ExportSpecs)
    /\ imports \in Optional(ImportKeys[2], DriftImportSpecs)
    /\ secrets = Put(NoObjects, SourceKey, TlsSecret("c1", "k1"))
    /\ crons = <<NewCron>>
    /\ lastExportCount = 0
    /\ lastImportCount = 0
    /\ lastResourceHash = <<>>
    /\ immediateOnStart = FALSE
    /\ immediateOnce = FALSE
    /\ pcLoop = "listExports"
    /\ exportList = <<>>
    /\ importList = <<>>
    /\ ctxDone = FALSE
    /\ pcStart = "waiting"
    /\ inflight = EmptyBag
    /\ primes = <<>>
    /\ ev = NoEvent
    /\ hist = NoHistory

\* the user declares, rewrites or withdraws the Import under k
EditImportSpec(k) ==
    /\ hist.edits < MaxEdits
    /\ EditPoint
    /\ \/ \E v \in DriftImportSpecs :
            /\ IF k \in DOMAIN imports
               THEN [imports[k] EXCEPT !.lastSyncTime = 0] # v ELSE TRUE
            /\ imports' = Put(imports, k,
                   IF k \in DOMAIN imports
                   THEN [v EXCEPT !.lastSyncTime = imports[k].lastSyncTime] ELSE v)
       \/ /\ k \in DOMAIN imports
          /\ imports' = Delete(imports, k)
    /\ hist' = [hist EXCEPT !.edits = @ + 1]
    /\ ev' = NoEvent
    /\ UNCHANGED <<exports, secrets, ctlVars, loopVars, ctxDone, pcStart, inflight, primes>>

NextDrift ==
    \/ Build
    \/ EditImportSpec(ImportKeys[2])
    \/ EditExport(ExportKeys[1])

SpecDrift == InitDrift /\ [][NextDrift]_vars

----------------------------------------------------------------------------
(* The controller with work in progress: an Import is scheduled, the user
   rewrites or withdraws it while its callback or the immediate sync is under
   way, and the process context is cancelled at some moment *)

InitActive ==
    /\ exports = Put(NoObjects, ExportKeys[1], [secretRef |-> <<"s">>, lastSyncTime |-> 0])
    /\ imports \in {Put(NoObjects, ImportKeys[2], v) :
                       v \in {x \in ImportSpecs(ImportKeys[2]) : x.schedule = FiveFields}}
    /\ secrets = Put(NoObjects, SourceKey, TlsSecret("c1", "k1"))
    /\ crons = <<NewCron>>
    /\ lastExportCount = 0
    /\ lastImportCount = 0
    /\ lastResourceHash = <<>>
    /\ immediateOnStart \in BOOLEAN
    /\ immediateOnce = FALSE
    /\ pcLoop = "listExports"
    /\ exportList = <<>>
    /\ importList = <<>>
    /\ ctxDone = FALSE
    /\ pcStart = "waiting"
    /\ inflight = EmptyBag
    /\ primes = <<>>
    /\ ev = NoEvent
    /\ hist = NoHistory

NextActive ==
    \/ Build
    \/ Jobs(MaxBusy, SchedFailures)
    \/ EditImport(ImportKeys[2])
    \/ Cancel
    \/ StartStop
    \/ LoopExit

SpecActive == InitActive /\ [][NextActive]_vars

----------------------------------------------------------------------------
(* The text createResourceHash hands to SHA-256, on its own: the declared
   resources are rewritten from one set to another, attributes with a ":"
   inside included, and the text of each listing is computed *)

\* the declared resources of this universe: the Export a/e or none, the
\* Import b/i or none
TextExports == Optional(ExportKeys[1], ExportSpecs)
TextImports == Optional(ImportKeys[2], DriftImportSpecs)

InitText ==
    /\ exports \in TextExports
    /\ imports \in TextImports
    /\ secrets = NoObjects
    /\ crons = <<NewCron>>
    /\ lastExportCount = 0
    /\ lastImportCount = 0
    /\ lastResourceHash = <<>>
    /\ immediateOnStart = FALSE
    /\ immediateOnce = FALSE
    /\ pcLoop = "listExports"
    /\ exportList = <<>>
    /\ importList = <<>>
    /\ ctxDone = FALSE
    /\ pcStart = "waiting"
    /\ inflight = EmptyBag
    /\ primes = <<>>
    /\ ev = NoEvent
    /\ hist = NoHistory

\* lines 399-413 for the listing of the store before and after the user has
\* rewritten the declared resources: hashInput.String() of each
HashTexts ==
    /\ exports' \in TextExports
    /\ imports' \in TextImports
    /\ ev' = [op |-> "texts",
              first |-> [exps |-> ListExports, imps |-> ListImports,
                         text |-> HashInput(ListExports, ListImports)],
              second |-> [exps |-> ListExports', imps |-> ListImports',
                          text |-> HashInput(ListExports, ListImports)']]
    /\ UNCHANGED <<secrets, ctlVars, loopVars, ctxDone, pcStart, inflight, primes, hist>>

SpecText == InitText /\ [][HashTexts]_vars

----------------------------------------------------------------------------
(* Properties of the schedule builder *)

\* C1: a build that lists as many Exports and Imports as the last rebuild
\* recorded, with the fingerprint it recorded, ends there: the job tables
\* (entries and running state), the recorded counts and fingerprint, the
\* one-time flag, the pending immediate syncs and the store are as before, and
\* the only store calls of the build are the two List calls.
C1_SkipLeavesTableAndRecord ==
    [][(/\ pcLoop = "compare"
        /\ pcLoop' # "compare"
        /\ Len(exportList) = lastExportCount
        /\ Len(importList) = lastImportCount
        /\ createResourceHash(exportList, importList) = lastResourceHash)
       => /\ crons' = crons
          /\ lastExportCount' = lastExportCount
          /\ lastImportCount' = lastImportCount
          /\ lastResourceHash' = lastResourceHash
          /\ immediateOnce' = immediateOnce
          /\ primes' = primes
          /\ inflight' = inflight
          /\ storeVars' = storeVars
          /\ pcLoop' = "wait"
          /\ ev'.op = "skip"
          /\ ev'.calls = <<"ListExports", "ListImports">>]_vars

\* a build was skipped while a table with entries was running
C1_Witness ==
    /\ ev.op = "skip"
    /\ ev.calls = <<"ListExports", "ListImports">>
    /\ crons[cur].running
    /\ Len(crons[cur].entries) > 0

\* C2: when the loop over the listed Imports has ended, an Import of the
\* listing has an entry in the new table exactly when its schedule (the
\* default one when it has none) passes the validation; an invalid schedule
\* ahead of a valid one does not keep the valid one out.
C2_InvalidLeftOutValidScheduled ==
    pcLoop = "start" =>
        \A i \in 1..Len(importList) :
            LET item == importList[i]
                n == Cardinality({j \in 1..Len(crons[cur].entries) :
                                     /\ crons[cur].entries[j].job.ns = item.ns
                                     /\ crons[cur].entries[j].job.name = item.name})
            IN IF ValidSchedule(EffectiveSchedule(item.schedule)) THEN n = 1 ELSE n = 0

\* the listing had an Import with an invalid schedule ahead of one with a
\* valid schedule, and the table got the entry of the valid one only
C2_Witness ==
    /\ pcLoop = "start"
    /\ Len(importList) = 2
    /\ ~ValidSchedule(EffectiveSchedule(importList[1].schedule))
    /\ ValidSchedule(EffectiveSchedule(importList[2].schedule))
    /\ Len(crons[cur].entries) = 1
    /\ crons[cur].entries[1].job.name = importList[2].name

\* C3: a callback starts to run only from the table s.cron names: once the
\* old instance has been replaced, none of its entries starts a new run.
C3_NoFiringFromReplacedTable ==
    [][\A e \in BagToSet(inflight') :
          CopiesIn(e, inflight') > CopiesIn(e, inflight) => e.job.gen = cur]_vars

\* the table was replaced while a callback of the old table was running, and
\* the new table is running with entries
C3_Witness ==
    /\ cur > 2
    /\ \E e \in BagToSet(inflight) : e.job.gen < cur
    /\ crons[cur].running
    /\ Len(crons[cur].entries) > 0

\* C4: at the end of a rebuild the table s.cron names has one entry for each
\* listed Import with a valid schedule and no other entry, every entry was
\* registered by this rebuild, and the table is running exactly when it has
\* an entry.
C4_WholeTableReplace ==
    ev.op = "rebuilt" =>
        LET entries == crons[cur].entries
            valid == {i \in 1..Len(ev.imps) :
                         ValidSchedule(EffectiveSchedule(ev.imps[i].schedule))}
        IN /\ Len(entries) = Cardinality(valid)
           /\ \A i \in valid :
                  \E j \in 1..Len(entries) :
                      /\ entries[j].job.ns = ev.imps[i].ns
                      /\ entries[j].job.name = ev.imps[i].name
                      /\ entries[j].job.fromExport = ev.imps[i].fromExport
                      /\ entries[j].job.targetSecret = ev.imps[i].targetSecret
                      /\ entries[j].schedule = EffectiveSchedule(ev.imps[i].schedule)
           /\ \A j \in 1..Len(entries) : entries[j].job.gen = cur
           /\ crons[cur].running <=> Len(entries) > 0

\* a rebuild replaced a table that had an entry by a table with an entry
C4_Witness ==
    /\ ev.op = "rebuilt"
    /\ cur > 2
    /\ Len(crons[cur].entries) > 0
    /\ crons[cur].running

C6_PrimeAtMostOnce ==
    /\ hist.launches <= 1
    /\ Len(primes) <= 1
    /\ hist.launches = 1 => immediateOnStart /\ immediateOnce /\ hist.seenNonEmpty
    /\ (ev.op = "rebuilt" /\ ev.primed) =>
           /\ immediateOnStart
           /\ ev.first
           /\ Len(ev.imps) > 0
           /\ pcLoop = "wait"
           /\ Len(primes) = 1
           /\ primes[1].i = 1
           /\ primes[1].items = ev.imps

\* a later rebuild with Imports listed did not launch the immediate sync again
C6_Witness ==
    /\ hist.launches = 1
    /\ ev.op = "rebuilt"
    /\ Len(ev.imps) > 0
    /\ ~ev.primed
    /\ ~ev.first
    /\ immediateOnStart

\* C7 as claimed: no job is running twice at the same time for the same
\* entry of the same table.
C7_NoSelfOverlap ==
    \A e \in BagToSet(inflight) : CopiesIn(e, inflight) <= 1

\* C8 as claimed: once Start has called Stop and returned, no callback starts
\* to run.
C8_NoFiringAfterStop ==
    [][pcStart = "returned" =>
          \A e \in BagToSet(inflight') :
              CopiesIn(e, inflight') <= CopiesIn(e, inflight)]_vars

----------------------------------------------------------------------------
(* Properties of the sync executor *)

\* C9: a syncImport that returns nil and found no target has created the
\* target in the zone of the Import under the name targetSecret, of type TLS,
\* with the tls.crt and tls.key of the source of the Export, with the ca.crt
\* of the source when the source has one, and with nothing else.
C9_CreateCopiesSource ==
    (/\ ev.op = "sync"
     /\ ev.job.kind = "import"
     /\ ev.err = "nil"
     /\ <<ev.job.ns, ev.job.targetSecret>> \notin DOMAIN ev.before) =>
        LET tgtKey == <<ev.job.ns, ev.job.targetSecret>>
            expKey == parseNSName(ev.job.ns, ev.job.fromExport)
            src == ev.before[<<expKey[1], exports[expKey].secretRef>>]
        IN /\ src.type = TLS
           /\ tgtKey \in DOMAIN secrets
           /\ secrets[tgtKey].type = TLS
           /\ secrets[tgtKey].data["tls.crt"] = src.data["tls.crt"]
           /\ secrets[tgtKey].data["tls.key"] = src.data["tls.key"]
           /\ ("ca.crt" \in DOMAIN secrets[tgtKey].data) <=> ("ca.crt" \in DOMAIN src.data)
           /\ "ca.crt" \in DOMAIN src.data =>
                  secrets[tgtKey].data["ca.crt"] = src.data["ca.crt"]
           /\ DOMAIN secrets[tgtKey].data \subseteq {"tls.crt", "tls.key", "ca.crt"}

\* a target was created from a source that has a ca.crt
C9_Witness ==
    /\ ev.op = "sync"
    /\ ev.job.kind = "import"
    /\ ev.err = "nil"
    /\ ev.path = "create"
    /\ <<ev.job.ns, ev.job.targetSecret>> \notin DOMAIN ev.before
    /\ "ca.crt" \in DOMAIN secrets[<<ev.job.ns, ev.job.targetSecret>>].data

\* C10: a syncImport that returns nil and found the target leaves the target
\* with the ca.crt of the source when the source has one and without a
\* ca.crt when the source has none.
C10_UpdateMirrorsCA ==
    (/\ ev.op = "sync"
     /\ ev.job.kind = "import"
     /\ ev.err = "nil"
     /\ <<ev.job.ns, ev.job.targetSecret>> \in DOMAIN ev.before) =>
        LET tgtKey == <<ev.job.ns, ev.job.targetSecret>>
            expKey == parseNSName(ev.job.ns, ev.job.fromExport)
            src == ev.before[<<expKey[1], exports[expKey].secretRef>>]
        IN /\ tgtKey \in DOMAIN secrets
           /\ IF "ca.crt" \in DOMAIN src.data
              THEN /\ "ca.crt" \in DOMAIN secrets[tgtKey].data
                   /\ secrets[tgtKey].data["ca.crt"] = src.data["ca.crt"]
              ELSE "ca.crt" \notin DOMAIN secrets[tgtKey].data

\* a target that had a ca.crt was updated from a source that has none
C10_Witness ==
    /\ ev.op = "sync"
    /\ ev.job.kind = "import"
    /\ ev.err = "nil"
    /\ ev.path = "update"
    /\ <<ev.job.ns, ev.job.targetSecret>> \in DOMAIN ev.before
    /\ "ca.crt" \in DOMAIN ev.before[<<ev.job.ns, ev.job.targetSecret>>].data
    /\ "ca.crt" \notin DOMAIN secrets[<<ev.job.ns, ev.job.targetSecret>>].data

\* C11: when a syncImport has returned nil and the same syncImport is run
\* again at once, with the Export and the source as they were, the target
\* (its type and every key of its data) is after the second run what it was
\* after the first.
C11_SyncImportIdempotent ==
    [][(/\ ev.op = "sync"
        /\ ev.job.kind = "import"
        /\ ev.err = "nil"
        /\ ev'.op = "sync"
        /\ ev'.job = ev.job)
       => /\ <<ev.job.ns, ev.job.targetSecret>> \in DOMAIN secrets'
          /\ secrets'[<<ev.job.ns, ev.job.targetSecret>>]
                 = secrets[<<ev.job.ns, ev.job.targetSecret>>]]_vars

\* a run updated a target that an earlier run had made a copy of the source,
\* a key of its own included, and left it as it was
C11_Witness ==
    /\ ev.op = "sync"
    /\ ev.job.kind = "import"
    /\ ev.err = "nil"
    /\ ev.path = "update"
    /\ <<ev.job.ns, ev.job.targetSecret>> = TargetKey
    /\ secrets[TargetKey] = ev.before[TargetKey]
    /\ secrets[TargetKey].data["tls.crt"] = "c1"
    /\ "extra" \in DOMAIN secrets[TargetKey].data

C13_MissingExportOrSourceFails ==
    (/\ ev.op = "sync"
     /\ ev.job.kind = "import"
     /\ LET expKey == parseNSName(ev.job.ns, ev.job.fromExport)
        IN \/ expKey \notin DOMAIN ev.owners.exports
           \/ <<expKey[1], ev.owners.exports[expKey].secretRef>> \notin DOMAIN ev.before) =>
        /\ ev.err \in {"ExportNotFound", "SourceNotFound"}
        /\ \A i \in 1..Len(ev.calls) : ev.calls[i][1] \in {"GetExport", "GetSecret"}
        /\ secrets = ev.before
        /\ imports = ev.owners.imports
        /\ exports = ev.owners.exports

\* a syncImport did not find the source of its Export while its target and
\* its Import were there
C13_Witness ==
    /\ ev.op = "sync"
    /\ ev.job.kind = "import"
    /\ ev.err = "SourceNotFound"
    /\ parseNSName(ev.job.ns, ev.job.fromExport) \in DOMAIN exports
    /\ <<parseNSName(ev.job.ns, ev.job.fromExport)[1],
         exports[parseNSName(ev.job.ns, ev.job.fromExport)].secretRef>> \notin DOMAIN secrets
    /\ <<ev.job.ns, ev.job.targetSecret>> \in DOMAIN secrets
    /\ <<ev.job.ns, ev.job.name>> \in DOMAIN imports

\* C14: a sync that returns an error changes nothing for the others: the
\* tables keep their entries and stay running, no credential is changed, a
\* callback that failed is the only one that leaves the set of running
\* callbacks, and an immediate sync pass goes on with its next Import.
C14_FailureIsolated ==
    [][(ev'.op = "sync" /\ ev'.err # "nil") =>
          /\ crons' = crons
          /\ secrets' = secrets
          /\ ev'.via = "cron" =>
                 /\ primes' = primes
                 /\ \E e \in BagToSet(inflight) :
                        e.job = ev'.job /\ inflight' = inflight (-) SetToBag({e})
          /\ ev'.via = "prime" =>
                 /\ inflight' = inflight
                 /\ Len(primes) = 1
                 /\ primes' = IF primes[1].i < Len(primes[1].items)
                              THEN [primes EXCEPT ![1].i = primes[1].i + 1]
                              ELSE <<>>]_vars

\* in an immediate sync pass over two Imports the sync of the first failed,
\* and the sync of the second created its target
C14_Witness ==
    /\ ev.op = "sync"
    /\ ev.via = "prime"
    /\ ev.err = "nil"
    /\ ev.path = "create"
    /\ <<ev.job.ns, ev.job.name>> = ImportKeys[2]
    /\ ImportKeys[1] \in DOMAIN imports
    /\ <<nsA, <<"u">>>> \notin DOMAIN secrets
    /\ TargetKey \in DOMAIN secrets
    /\ Len(crons[cur].entries) = 2

\* C15: parseNSName(Z, r) is (Z, r) when r has no "/"; when r has one it is
\* (what is before the first "/", what is after the first "/"), whatever Z
\* is and however many "/" follow.
C15_ParseSplitsAtFirstSeparator ==
    ev.op = "parsed" =>
        LET r == ev.ref
            seps == {i \in 1..Len(r) : r[i] = "/"}
        IN IF seps = {}
           THEN ev.key = <<ev.defaultNS, r>>
           ELSE \E i \in seps :
                   /\ \A j \in seps : i <= j
                   /\ ev.key = <<[k \in 1..(i - 1) |-> r[k]],
                                 [k \in 1..(Len(r) - i) |-> r[i + k]]>>

\* a reference with two separators was split, in a zone that is not the one
\* it names, and the name kept the second separator
C15_Witness ==
    /\ ev.op = "parsed"
    /\ ev.ref = <<"a", "/", "e", "/">>
    /\ ev.defaultNS = nsB
    /\ ev.key = <<nsA, <<"e", "/">>>>

\* C16: every syncImport first reads the Export its reference names and then
\* the credential that Export names at that moment; when it returns nil the
\* target holds the tls.crt, the tls.key and the ca.crt (or none) that this
\* credential had at that moment, whatever the Export named and whatever the
\* credential held at the last rebuild or at an earlier sync.
C16_SyncReadsLiveSource ==
    (ev.op = "sync" /\ ev.job.kind = "import") =>
        LET expKey == parseNSName(ev.job.ns, ev.job.fromExport)
            tgtKey == <<ev.job.ns, ev.job.targetSecret>>
        IN /\ ev.calls[1] = <<"GetExport", expKey>>
           /\ expKey \in DOMAIN ev.owners.exports =>
                  LET srcKey == <<expKey[1], ev.owners.exports[expKey].secretRef>>
                  IN /\ ev.calls[2] = <<"GetSecret", srcKey>>
                     /\ ev.err = "nil" =>
                            /\ \A k \in {"tls.crt", "tls.key"} :
                                   secrets[tgtKey].data[k] = ev.before[srcKey].data[k]
                            /\ IF "ca.crt" \in DOMAIN ev.before[srcKey].data
                               THEN /\ "ca.crt" \in DOMAIN secrets[tgtKey].data
                                    /\ secrets[tgtKey].data["ca.crt"]
                                           = ev.before[srcKey].data["ca.crt"]
                               ELSE "ca.crt" \notin DOMAIN secrets[tgtKey].data

\* a target that held the copy of one credential was given the content of the
\* other one, which the Export had come to name
C16_Witness ==
    /\ ev.op = "sync"
    /\ ev.job.kind = "import"
    /\ ev.err = "nil"
    /\ ev.path = "update"
    /\ <<ev.job.ns, ev.job.targetSecret>> = TargetKey
    /\ ev.before[TargetKey].data["tls.crt"] = "c1"
    /\ secrets[TargetKey].data["tls.crt"] = "c2"
    /\ exports[ExportKeys[1]].secretRef = <<"x">>

\* C17: a sync whose status stamp failed (the owning resource could not be
\* read, or the update of its status did not take) returns nil all the same;
\* the target a syncImport wrote is there with the certificate and key of the
\* source, and a syncExport has changed no credential.
C17_StampFailureIgnored ==
    (/\ ev.op = "sync"
     /\ LET last == ev.calls[Len(ev.calls)]
        IN IF ev.job.kind = "import"
           THEN \/ last[1] = "GetImport"
                \/ /\ last[1] = "UpdateImportStatus"
                   /\ imports[last[2]].lastSyncTime = 0
           ELSE \/ last[1] = "GetExport"
                \/ /\ last[1] = "UpdateExportStatus"
                   /\ exports[last[2]].lastSyncTime = 0) =>
        /\ ev.err = "nil"
        /\ imports = ev.owners.imports
        /\ exports = ev.owners.exports
        /\ IF ev.job.kind = "import"
           THEN LET expKey == parseNSName(ev.job.ns, ev.job.fromExport)
                    srcKey == <<expKey[1], exports[expKey].secretRef>>
                    tgtKey == <<ev.job.ns, ev.job.targetSecret>>
                IN /\ tgtKey \in DOMAIN secrets
                   /\ secrets[tgtKey].type = TLS
                   /\ secrets[tgtKey].data["tls.crt"] = ev.before[srcKey].data["tls.crt"]
                   /\ secrets[tgtKey].data["tls.key"] = ev.before[srcKey].data["tls.key"]
           ELSE secrets = ev.before

\* a syncImport created its target and the update of the status of its Import
\* did not take
C17_Witness ==
    /\ ev.op = "sync"
    /\ ev.job.kind = "import"
    /\ ev.err = "nil"
    /\ ev.path = "create"
    /\ ev.calls[Len(ev.calls)][1] = "UpdateImportStatus"
    /\ imports[<<ev.job.ns, ev.job.name>>].lastSyncTime = 0
    /\ <<ev.job.ns, ev.job.targetSecret>> \in DOMAIN secrets
    /\ <<ev.job.ns, ev.job.targetSecret>> \notin DOMAIN ev.before

C19_LoopSurvivesErrors ==
    /\ [](pcLoop = "exited" => ctxDone)
    /\ [][/\ ev'.op = "listFailed" =>
                /\ pcLoop' = "wait"
                /\ UNCHANGED <<crons, lastExportCount, lastImportCount,
                               lastResourceHash, immediateOnce>>
          /\ (ev'.op = "sync" /\ ev'.err # "nil") => pcLoop' = pcLoop]_vars
    /\ (pcLoop = "wait") ~> (pcLoop = "listExports" \/ ctxDone)

\* a List failed in the first build, before any rebuild, and the loop waits
\* for its next tick with the context not cancelled
C19_Witness ==
    /\ ev.op = "listFailed"
    /\ pcLoop = "wait"
    /\ ~ctxDone
    /\ lastResourceHash = <<>>
    /\ DOMAIN imports # {}

\* C20 as claimed: no sync issues a Create or an Update on a credential that
\* an Export names, and every such credential is after a sync what it was
\* before.
C20_SourceReadOnly ==
    ev.op = "sync" =>
        \A k \in DOMAIN ev.owners.exports :
            LET ref == <<k[1], ev.owners.exports[k].secretRef>>
            IN /\ \A i \in 1..Len(ev.calls) :
                      ev.calls[i][1] \in {"CreateSecret", "UpdateSecret"}
                          => ev.calls[i][2] # ref
               /\ IF ref \in DOMAIN ev.before
                  THEN ref \in DOMAIN secrets /\ secrets[ref] = ev.before[ref]
                  ELSE ref \notin DOMAIN secrets


\* C21 as claimed: two listings of the same Exports and Imports, with the same
\* relevant fields, have the same fingerprint in whatever order the items
\* are listed.
C21_FingerprintOrderFree ==
    (/\ ev.op = "hashed"
     /\ Range(ev.first.exps) = Range(ev.second.exps)
     /\ Range(ev.first.imps) = Range(ev.second.imps)) =>
        ev.first.hash = ev.second.hash


\* C22: at the end of a rebuild, every listed Import whose schedule is a
\* well-formed descriptor ("@daily", "@every 1h") or a well-formed five-field
\* expression has an entry in the table s.cron names, registered by this
\* rebuild under that schedule, and the table is running: what the validation
\* accepts, AddFunc registers.
C22_BothGrammarsRegistered ==
    ev.op = "rebuilt" =>
        \A i \in 1..Len(ev.imps) :
            (DescriptorParses(ev.imps[i].schedule) \/ FiveFieldParses(ev.imps[i].schedule))
                => /\ crons[cur].running
                   /\ \E j \in 1..Len(crons[cur].entries) :
                          /\ crons[cur].entries[j].job.ns = ev.imps[i].ns
                          /\ crons[cur].entries[j].job.name = ev.imps[i].name
                          /\ crons[cur].entries[j].job.gen = cur
                          /\ crons[cur].entries[j].schedule = ev.imps[i].schedule

\* a rebuild listed an Import with a descriptor and an Import with a
\* five-field expression, and the table has the two entries
C22_Witness ==
    /\ ev.op = "rebuilt"
    /\ Len(ev.imps) = 2
    /\ DescriptorParses(ev.imps[1].schedule)
    /\ FiveFieldParses(ev.imps[2].schedule)
    /\ Len(crons[cur].entries) = 2
    /\ crons[cur].entries[1].schedule = <<"@", "daily">>
    /\ crons[cur].entries[2].schedule = FiveFields
    /\ crons[cur].running


\* C23: at the end of a rebuild, every listed Import that has no schedule (the
\* attribute is absent or empty) has exactly one entry in the table s.cron
\* names, with the schedule "@every 1h", and the table is running.
C23_AbsentScheduleGetsDefault ==
    ev.op = "rebuilt" =>
        \A i \in 1..Len(ev.imps) :
            ev.imps[i].schedule = <<>> =>
                /\ crons[cur].running
                /\ Cardinality({j \in 1..Len(crons[cur].entries) :
                                   /\ crons[cur].entries[j].job.ns = ev.imps[i].ns
                                   /\ crons[cur].entries[j].job.name = ev.imps[i].name
                                   /\ crons[cur].entries[j].schedule
                                          = <<"@", "every", " ", "1h">>}) = 1

\* a rebuild listed an Import without a schedule ahead of an Import with one,
\* and the first entry of the table is the one of the default schedule
C23_Witness ==
    /\ ev.op = "rebuilt"
    /\ Len(ev.imps) = 2
    /\ ev.imps[1].schedule = <<>>
    /\ Len(crons[cur].entries) = 2
    /\ crons[cur].entries[1].job.name = ev.imps[1].name
    /\ crons[cur].entries[1].schedule = DefaultSchedule
    /\ crons[cur].running


\* C24 as claimed: a build that lists successfully and ends without a rebuild
\* has listed the Exports and Imports, with the relevant fields, that the
\* table was built from: whenever a relevant field has changed, or a resource
\* was added or removed, the build is a rebuild; and at the end of a rebuild
\* the entries of the table are those of the listed Imports, with their
\* fromExport, targetSecret and schedule.
C24_ChangeForcesRebuild ==
    /\ ev.op = "skip" =>
           /\ ev.exps = hist.built.exps
           /\ ev.imps = hist.built.imps
    /\ ev.op = "rebuilt" =>
           \A j \in 1..Len(crons[cur].entries) :
               \E i \in 1..Len(ev.imps) :
                   /\ crons[cur].entries[j].job.ns = ev.imps[i].ns
                   /\ crons[cur].entries[j].job.name = ev.imps[i].name
                   /\ crons[cur].entries[j].job.fromExport = ev.imps[i].fromExport
                   /\ crons[cur].entries[j].job.targetSecret = ev.imps[i].targetSecret
                   /\ crons[cur].entries[j].schedule
                          = EffectiveSchedule(ev.imps[i].schedule)


\* C25: a step that cancels the context, that stops a table (Start's Stop) or
\* that replaces or changes a table leaves every callback that is running,
\* every immediate sync pass that is under way and the store as they are; and
\* a sync that runs afterwards, whether the context is cancelled, Start has
\* returned or its table has been replaced, runs to its end: it returns nil,
\* has written the target with the certificate and key of the source and has
\* gone on to the status stamp of its Import.
C25_ActiveWorkUntouched ==
    [][/\ (ctxDone' # ctxDone \/ pcStart' # pcStart \/ crons' # crons) =>
              /\ inflight' = inflight
              /\ Len(primes') >= Len(primes)
              /\ \A p \in 1..Len(primes) : primes'[p] = primes[p]
              /\ storeVars' = storeVars
       /\ ev'.op = "sync" =>
              LET tgtKey == <<ev'.job.ns, ev'.job.targetSecret>>
              IN /\ ev'.err = "nil"
                 /\ tgtKey \in DOMAIN secrets'
                 /\ secrets'[tgtKey].type = TLS
                 /\ \A k \in {"tls.crt", "tls.key"} :
                        secrets'[tgtKey].data[k] = secrets[SourceKey].data[k]
                 /\ \E i \in 1..Len(ev'.calls) :
                        /\ ev'.calls[i][1] \in {"CreateSecret", "UpdateSecret"}
                        /\ i < Len(ev'.calls)
                        /\ ev'.calls[i + 1] = <<"GetImport", <<ev'.job.ns, ev'.job.name>>>>]_vars

\* a callback that was running when its table was replaced, the context
\* cancelled and the scheduler stopped by Start has created its target
C25_Witness ==
    /\ ev.op = "sync"
    /\ ev.via = "cron"
    /\ ev.err = "nil"
    /\ ev.path = "create"
    /\ ev.job.gen < cur
    /\ ctxDone
    /\ pcStart = "returned"
    /\ ~crons[ev.job.gen].running
    /\ <<ev.job.ns, ev.job.targetSecret>> \in DOMAIN secrets


\* C26: a syncImport that found its target and returns nil leaves the target
\* of type TLS, with the tls.crt and the tls.key of the source, whatever type
\* and payload the target had; every key of the payload other than tls.crt,
\* tls.key and ca.crt is there with the value it had, and no such key is
\* added.
C26_UpdateOverwritesKeepsRest ==
    (/\ ev.op = "sync"
     /\ ev.job.kind = "import"
     /\ ev.err = "nil"
     /\ <<ev.job.ns, ev.job.targetSecret>> \in DOMAIN ev.before) =>
        LET tgtKey == <<ev.job.ns, ev.job.targetSecret>>
            expKey == parseNSName(ev.job.ns, ev.job.fromExport)
            src == ev.before[<<expKey[1], ev.owners.exports[expKey].secretRef>>]
            managed == {"tls.crt", "tls.key", "ca.crt"}
        IN /\ ev.path = "update"
           /\ secrets[tgtKey].type = TLS
           /\ secrets[tgtKey].data["tls.crt"] = src.data["tls.crt"]
           /\ secrets[tgtKey].data["tls.key"] = src.data["tls.key"]
           /\ DOMAIN secrets[tgtKey].data \ managed = DOMAIN ev.before[tgtKey].data \ managed
           /\ \A k \in DOMAIN ev.before[tgtKey].data \ managed :
                  secrets[tgtKey].data[k] = ev.before[tgtKey].data[k]

\* a target of another type, without certificate and key and with a key of
\* its own, was updated: it is of type TLS, holds the certificate of the
\* source and still has its own key
C26_Witness ==
    /\ ev.op = "sync"
    /\ ev.job.kind = "import"
    /\ ev.err = "nil"
    /\ ev.path = "update"
    /\ <<ev.job.ns, ev.job.targetSecret>> = TargetKey
    /\ ev.before[TargetKey].type = Opaque
    /\ "tls.crt" \notin DOMAIN ev.before[TargetKey].data
    /\ secrets[TargetKey].type = TLS
    /\ secrets[TargetKey].data["tls.crt"] = "c1"
    /\ secrets[TargetKey].data["extra"] = "x0"


\* C27: a build that ends on a failed List, of the Exports or of the Imports,
\* changes nothing: every table has the entries and the running state it had,
\* the recorded counts and fingerprint and the two flags of the immediate
\* sync are as before, the running callbacks, the immediate sync pass and the
\* store are untouched, and the loop waits for its next tick.
C27_ListFailureChangesNothing ==
    [][ev'.op = "listFailed" =>
          /\ ev'.calls \in {<<"ListExports">>, <<"ListExports", "ListImports">>}
          /\ crons' = crons
          /\ <<lastExportCount', lastImportCount', lastResourceHash'>>
                 = <<lastExportCount, lastImportCount, lastResourceHash>>
          /\ <<immediateOnStart', immediateOnce'>> = <<immediateOnStart, immediateOnce>>
          /\ <<inflight', primes'>> = <<inflight, primes>>
          /\ storeVars' = storeVars
          /\ pcLoop' = "wait"]_vars

\* the List of the Imports failed at a tick after a rebuild, and the table of
\* that rebuild is running with its two entries
C27_Witness ==
    /\ ev.op = "listFailed"
    /\ ev.calls = <<"ListExports", "ListImports">>
    /\ pcLoop = "wait"
    /\ lastImportCount = 2
    /\ Len(crons[cur].entries) = 2
    /\ crons[cur].running
    /\ \A g \in 1..(cur - 1) : ~crons[g].running


\* C28: the recorded counts and fingerprint change only in the step of a
\* rebuild that replaces the table, and they become those of the listing of
\* that build; outside a rebuild under way they are those of the listing the
\* table s.cron names was built from, whose Imports with a valid schedule are
\* the entries of the table; and a build that lists what the table was built
\* from is skipped, so an Import that was left out stays out.
C28_RecordDescribesBuiltListing ==
    [][/\ <<lastExportCount', lastImportCount', lastResourceHash'>>
              # <<lastExportCount, lastImportCount, lastResourceHash>> =>
              /\ pcLoop = "compare"
              /\ pcLoop' = "schedule"
              /\ Len(crons') = Len(crons) + 1
              /\ lastExportCount' = Len(exportList)
              /\ lastImportCount' = Len(importList)
              /\ lastResourceHash' = createResourceHash(exportList, importList)
       /\ (pcLoop' \notin {"schedule", "start"} /\ lastResourceHash' # <<>>) =>
              LET built == hist'.built
                  entries == crons'[Len(crons')].entries
              IN /\ lastExportCount' = Len(built.exps)
                 /\ lastImportCount' = Len(built.imps)
                 /\ lastResourceHash' = createResourceHash(built.exps, built.imps)
                 /\ \A i \in 1..Len(built.imps) :
                        Cardinality({j \in 1..Len(entries) :
                                        /\ entries[j].job.ns = built.imps[i].ns
                                        /\ entries[j].job.name = built.imps[i].name})
                            = IF ValidSchedule(EffectiveSchedule(built.imps[i].schedule))
                              THEN 1 ELSE 0
       /\ (/\ pcLoop = "compare"
           /\ pcLoop' # "compare"
           /\ lastResourceHash # <<>>
           /\ exportList = hist.built.exps
           /\ importList = hist.built.imps) =>
              /\ ev'.op = "skip"
              /\ crons' = crons
              /\ lastResourceHash' = lastResourceHash]_vars

\* a build listed again the Import with an invalid schedule that the rebuild
\* had left out, and was skipped: the table has no entry
C28_Witness ==
    /\ ev.op = "skip"
    /\ Len(ev.imps) = 1
    /\ ~ValidSchedule(EffectiveSchedule(ev.imps[1].schedule))
    /\ ev.imps = hist.built.imps
    /\ lastImportCount = 1
    /\ Len(crons[cur].entries) = 0
    /\ ~crons[cur].running


\* C29 as claimed: a syncImport issues a Create only on a target that is not
\* in the store and an Update only on a target that is in it, whatever store
\* call fails.
C29_CreateOnlyWhenAbsent ==
    (ev.op = "sync" /\ ev.job.kind = "import") =>
        \A i \in 1..Len(ev.calls) :
            /\ ev.calls[i][1] = "CreateSecret" => ev.calls[i][2] \notin DOMAIN ev.before
            /\ ev.calls[i][1] = "UpdateSecret" => ev.calls[i][2] \in DOMAIN ev.before


\* C30: a sync, with the target it creates or updates and the lastSyncTime it
\* stamps, leaves the number of Exports and Imports and the fingerprint of
\* their listing as they were; and while the user changes nothing, every
\* build that comes to the comparison after a rebuild is skipped.
C30_OwnWritesNeverRebuild ==
    [][/\ ev'.op = "sync" =>
              /\ Len(ListExports)' = Len(ListExports)
              /\ Len(ListImports)' = Len(ListImports)
              /\ createResourceHash(ListExports, ListImports)'
                     = createResourceHash(ListExports, ListImports)
       /\ (pcLoop = "compare" /\ pcLoop' # "compare" /\ lastResourceHash # <<>>) =>
              /\ ev'.op = "skip"
              /\ crons' = crons]_vars

\* a build was skipped after syncs had created the two targets and stamped
\* the two Imports
C30_Witness ==
    /\ ev.op = "skip"
    /\ cur = 2
    /\ \A k \in DOMAIN imports : imports[k].lastSyncTime = 1
    /\ DOMAIN imports = Range(ImportKeys)
    /\ TargetKey \in DOMAIN secrets
    /\ <<nsA, <<"u">>>> \in DOMAIN secrets


\* C31 as claimed: the rebuild that launches the immediate sync has put at
\* least one entry in the table, every Import the immediate sync pass is
\* launched with has an entry in that table, and every Import a pass has yet
\* to sync has a schedule that passes the validation.
C31_PrimeOnlyScheduledImports ==
    /\ (ev.op = "rebuilt" /\ ev.primed) =>
           /\ Len(crons[cur].entries) > 0
           /\ \A i \in 1..Len(primes[Len(primes)].items) :
                  \E j \in 1..Len(crons[cur].entries) :
                      /\ crons[cur].entries[j].job.ns = primes[Len(primes)].items[i].ns
                      /\ crons[cur].entries[j].job.name = primes[Len(primes)].items[i].name
    /\ \A p \in 1..Len(primes) :
           \A i \in primes[p].i..Len(primes[p].items) :
               ValidSchedule(EffectiveSchedule(primes[p].items[i].schedule))


\* C32 as claimed: two listings with as many Exports and as many Imports that
\* differ in a zone, a name, a secretRef, a fromExport, a targetSecret or a
\* schedule are written as two different texts, also when a value has a ":"
\* or a "/" inside.
C32_HashTextInjective ==
    (/\ ev.op = "texts"
     /\ Len(ev.first.exps) = Len(ev.second.exps)
     /\ Len(ev.first.imps) = Len(ev.second.imps)
     /\ <<ev.first.exps, ev.first.imps>> # <<ev.second.exps, ev.second.imps>>) =>
        ev.first.text # ev.second.text

====
